---- MODULE Spec2Model ----
(***************************************************************************)
(* The crawl-and-insert loop of download.py together with the helpers of   *)
(* src/util.py it calls, as a state machine.                               *)
(*                                                                         *)
(* Strings are sequences of one-character strings, so that slicing         *)
(* (val[:max_len]), str.split(' ') and re.sub are computed and not         *)
(* assumed.  SQL NULL / Python None is the value None below.               *)
(*                                                                         *)
(* The web site and the database schema are the environment: the command   *)
(* line and the reflected column lengths are drawn in Init, the content of *)
(* a listing page and of a card is drawn when the loop reads it.  A        *)
(* database call may raise at any point it is made.                        *)
(***************************************************************************)
EXTENDS Integers, Sequences, FiniteSets, TLC

\* ------------------------------------------------------------------ bounds
\* largest --max_pages drawn
MaxPages == 2
\* most sections a listing page holds
MaxCards == 2
\* most entries of a detail page's author list and of its ORCID list
MaxAuthors == 2
\* largest column length the reflected schema declares
MaxColLen == 1

\* longest count text of the metrics bar
MaxTxtLen == 4

\* the per-page card limit of the for loop
CardLimit == 1000

\* ------------------------------------------------------------------ values
None == <<"None">>

IsStr(v) == v # None

\* What the site serves during a run.
\*   Dois    DOIs a detail page can yield
\*   Orcids  ORCIDs of an author item (None: no js-orcid link)
\*   Names   author names of a detail page
\*   Titles  article titles
\* Four sites are crawled, each varying one part of the content:
\*   PlainSite   little content; crawled with every --start_page and
\*               --max_pages of the bounds
\*   DoiSite     DOIs: none found (None), an empty one ("https://doi.org/"),
\*               a short one and one that extends it; titles: mixed case,
\*               leading punctuation
\*   AuthorSite  ORCIDs: none, a short one and one that extends it; names:
\*               given name and surname, a consortium (no blank)
\*   NameSite    no ORCIDs; names: given name and surname, the same with a
\*               longer surname, a consortium
\* DoiSite, AuthorSite and NameSite are crawled from page 1 with one page
\* allowed.
PlainSite ==
    [ Dois   |-> { <<"d">>, <<"e">> },
      Orcids |-> { None },
      Names  |-> { <<"a", " ", "b">> },
      Titles |-> { <<"A", "b">> } ]

DoiSite ==
    [ Dois   |-> { None, <<>>, <<"d">>, <<"d", "x">> },
      Orcids |-> { None },
      Names  |-> { <<"a", " ", "b">> },
      Titles |-> { <<"A", "b">>, <<"-", "a">> } ]

AuthorSite ==
    [ Dois   |-> { <<"d">>, <<"e">> },
      Orcids |-> { None, <<"o">>, <<"o", "p">> },
      Names  |-> { <<"a", " ", "b">>, <<"c">> },
      Titles |-> { <<"A", "b">> } ]

NameSite ==
    [ Dois   |-> { <<"d">>, <<"e">> },
      Orcids |-> { None },
      Names  |-> { <<"a", " ", "b">>, <<"a", " ", "b", "c">>, <<"c">> },
      Titles |-> { <<"A", "b">> } ]

Titles == PlainSite.Titles \cup DoiSite.Titles \cup AuthorSite.Titles \cup NameSite.Titles

LowerChars == { "a", "b" }
UpperChars == { "A", "B" }
DigitChars == { "1" }

Min(a, b) == IF a <= b THEN a ELSE b

\* ------------------------------------------------------------------ util.py

RECURSIVE split(_)
\* str.split(' '): every single blank separates, empty pieces are kept
split(s) ==
    IF s = <<>> THEN << <<>> >>
    ELSE LET r == split(Tail(s))
         IN  IF Head(s) = " " THEN << <<>> >> \o r
             ELSE << (<<Head(s)>> \o Head(r)) >> \o Tail(r)

RECURSIVE join(_)
\* ' '.join(pieces)
join(pieces) ==
    IF Len(pieces) = 0 THEN <<>>
    ELSE IF Len(pieces) = 1 THEN pieces[1]
    ELSE pieces[1] \o <<" ">> \o join(Tail(pieces))

getSingleAuthorDict(auth) ==
    LET auth_split == split(auth)
    IN  [ FIRSTNAME |-> join(SubSeq(auth_split, 1, Len(auth_split) - 1)),
          LASTNAME  |-> auth_split[Len(auth_split)] ]

\* removeNones drops a key whose value is '' or None; the column of a dropped
\* key is stored as NULL
removeNones(val) == IF val = <<>> \/ val = None THEN None ELSE val

\* truncateEntries: val[:max_len] for a string in a column that declares a
\* length (max_len 0 stands for a type without one)
truncateEntries(val, max_len) ==
    IF IsStr(val) /\ max_len # 0
    THEN SubSeq(val, 1, Min(max_len, Len(val)))
    ELSE val

\* the value myInsert(rm_nones=True, trunc=True) stores for one column
myInsertValue(val, max_len) == truncateEntries(removeNones(val), max_len)

\* select(col).where(col == elem): "col IS NULL" for None, and no NULL
\* column equals a string
Matches(stored, elem) ==
    IF elem = None THEN stored = None ELSE stored # None /\ stored = elem

elemInDB(elem, field, table) ==
    \E k \in 1..Len(table) : Matches(table[k][field], elem)

\* ------------------------------------------------------------------ title words

IsAlnum(c) == c \in LowerChars \cup UpperChars \cup DigitChars

\* re.sub(r'[^a-zA-Z0-9]', ' ', title)
reSub(title) == [ k \in 1..Len(title) |-> IF IsAlnum(title[k]) THEN title[k] ELSE " " ]

lowerChar(c) == IF c = "A" THEN "a" ELSE IF c = "B" THEN "b" ELSE c

\* w.lower()
lower(w) == [ k \in 1..Len(w) |-> lowerChar(w[k]) ]

\* the words handed to AddOrIncrementWord for a title, in order
cleaned_title(title) ==
    LET pieces == split(reSub(title))
    IN  [ k \in 1..Len(pieces) |-> lower(pieces[k]) ]

Words == UNION { { cleaned_title(t)[k] : k \in 1..Len(cleaned_title(t)) } : t \in Titles }

\* the TITLEWORDS table: word -> count, 0 for a word without a row
NoWords == [ w \in Words |-> 0 ]

\* the stored procedure: insert the word with count 1, or add 1 to its count
AddOrIncrementWord(table, w) == [ table EXCEPT ![w] = @ + 1 ]

RECURSIVE callprocAll(_, _)
\* the loop of callproc over the words
callprocAll(table, ws) ==
    IF ws = <<>> THEN table
    ELSE callprocAll(AddOrIncrementWord(table, Head(ws)), Tail(ws))

\* ------------------------------------------------------------------ NatureArticle.py

\* What a call yields: the value it returns, or the exception it raises
\* (raises is "" for a call that returns).
Returned(v) == [ raises |-> "", value |-> v ]
Raised(e, v) == [ raises |-> e, value |-> v ]

DecimalDigits == << "0", "1", "2", "3", "4", "5", "6", "7", "8", "9" >>

IsDigit(c) == \E d \in 1..10 : DecimalDigits[d] = c

digitValue(c) == (CHOOSE d \in 1..10 : DecimalDigits[d] = c) - 1

RECURSIVE digitsValue(_)
\* the number a string of decimal digits denotes
digitsValue(t) ==
    IF t = <<>> THEN 0
    ELSE 10 * digitsValue(SubSeq(t, 1, Len(t) - 1)) + digitValue(t[Len(t)])

\* int(t) for a text of digits, points and letters: the number, or
\* ValueError for a text that is not all digits (the empty text included)
int(t) ==
    IF t # <<>> /\ \A k \in 1..Len(t) : IsDigit(t[k])
    THEN Returned(digitsValue(t))
    ELSE Raised("ValueError", 0)

endswith(t, c) == t # <<>> /\ t[Len(t)] = c

RECURSIVE rstrip(_, _)
\* t.rstrip(c): every trailing c is removed
rstrip(t, c) == IF endswith(t, c) THEN rstrip(SubSeq(t, 1, Len(t) - 1), c) ELSE t

\* num_int of lines 88-92 for the count text num_txt of one metric
metrics(t) ==
    IF endswith(t, "k")
    THEN IF int(rstrip(t, "k")).raises # "" THEN int(rstrip(t, "k"))
         ELSE Returned(int(rstrip(t, "k")).value * 1000)
    ELSE int(t)

\* the characters of a count text, and the count texts
CountChars == { "0", "1", "2", ".", "k" }

CountTexts == UNION { [ 1..n -> CountChars ] : n \in 0..MaxTxtLen }

fields_desired == { "Received", "Accepted", "Published" }

\* txt_ls[0].upper()
upper(label) ==
    CASE label = "Received" -> "RECEIVED"
      [] label = "Accepted" -> "ACCEPTED"
      [] label = "Published" -> "PUBLISHED"
      [] OTHER -> "OTHER"

\* %B: the full month names (strptime compares them ignoring case; the texts
\* here are capitalised)
MonthNames == << "January", "February", "March", "April", "May", "June", "July",
                 "August", "September", "October", "November", "December" >>

IsLeap(y) == y % 4 = 0 /\ (y % 100 # 0 \/ y % 400 = 0)

daysIn(m, y) ==
    IF m = 2 THEN (IF IsLeap(y) THEN 29 ELSE 28)
    ELSE IF m \in { 4, 6, 9, 11 } THEN 30 ELSE 31

\* datetime.strptime(date_str, "%d %B %Y") for a text of three pieces: %d is
\* one or two digits from 1 to 31, %B a month name, %Y four digits; the
\* day has to exist in the month.  Yields the date or ValueError.
strptime(date_str) ==
    LET dOk == /\ Len(date_str.d) \in { 1, 2 }
               /\ \A k \in 1..Len(date_str.d) : IsDigit(date_str.d[k])
               /\ digitsValue(date_str.d) \in 1..31
        mOk == \E m \in 1..12 : MonthNames[m] = date_str.B
        yOk == /\ Len(date_str.Y) = 4
               /\ \A k \in 1..4 : IsDigit(date_str.Y[k])
               /\ digitsValue(date_str.Y) >= 1
    IN  IF dOk /\ mOk /\ yOk
        THEN LET m == CHOOSE m \in 1..12 : MonthNames[m] = date_str.B
                 y == digitsValue(date_str.Y)
                 d == digitsValue(date_str.d)
             IN  IF d <= daysIn(m, y)
                 THEN Returned([ year |-> y, month |-> m, day |-> d ])
                 ELSE Raised("ValueError", [ year |-> 0, month |-> 0, day |-> 0 ])
        ELSE Raised("ValueError", [ year |-> 0, month |-> 0, day |-> 0 ])

RECURSIVE digitsOf(_)
\* the decimal digits of a natural number
digitsOf(n) ==
    IF n < 10 THEN << DecimalDigits[n + 1] >>
    ELSE digitsOf(n \div 10) \o << DecimalDigits[(n % 10) + 1] >>

\* Faulty variant: %-m and %-d, no padding
zeroPadNot(n, width) == digitsOf(n)

RECURSIVE zeroPad(_, _)
\* a number in at least width digits, as %m and %d (width 2) write it
zeroPad(n, width) ==
    IF Len(digitsOf(n)) >= width THEN digitsOf(n)
    ELSE << "0" >> \o zeroPad(n, width - 1)

\* date_obj.strftime("%Y-%m-%d"), for the years from 1000 on
strftime(date_obj) ==
    digitsOf(date_obj.year) \o << "-" >> \o zeroPad(date_obj.month, 2)
        \o << "-" >> \o zeroPad(date_obj.day, 2)

\* no item, no field
NoLi == [ label |-> "", date_str |-> [ d |-> <<>>, B |-> "", Y |-> <<>> ] ]
NoField == [ key |-> "", date |-> <<>> ]

\* lines 110-115 for one list item: the field it adds to date_data, NoField
\* for an item with another label, ValueError when strptime raises
dateList(item_li) ==
    IF item_li.label \in fields_desired
    THEN IF strptime(item_li.date_str).raises # "" THEN Raised("ValueError", NoField)
         ELSE Returned([ key  |-> upper(item_li.label),
                         date |-> strftime(strptime(item_li.date_str).value) ])
    ELSE Returned(NoField)

\* the list items of the bibliographic information: label and the text
\* after the colon, as its three blank-separated pieces
DateLabels == fields_desired \cup { "Revised" }
DayTexts == { <<"1">>, <<"0", "1">>, <<"1", "4">>, <<"2", "9">>, <<"3", "1">>, <<"3", "2">>, <<"0">> }
MonthTexts == { "February", "March", "April", "December", "Mar" }
YearTexts == { <<"2", "0", "2", "3">>, <<"2", "0", "2", "4">>, <<"1", "9", "9", "9">> }

DateItems ==
    { [ label |-> l, date_str |-> [ d |-> d, B |-> b, Y |-> y ] ] :
          l \in DateLabels, d \in DayTexts, b \in MonthTexts, y \in YearTexts }

\* a function of the module has not been called
NotRun(v) == Raised("NotRun", v)

\* ------------------------------------------------------------------ state
VARIABLES
    num_txt, num_int,        \* metrics: a count text and the number made of it
    li, date_data,           \* dateList: a list item and the field made of it
    start_page, max_pages,   \* args
    schema,                  \* column name -> reflected length (0: none)
    site,                    \* what the site serves during this run
    page_num, keepSeeking,
    pc,                      \* where the script stands
    nSections, i,            \* len(sections_to_read), index of the for loop
    el,                      \* the card of this iteration and its detail page
    articles_entry,          \* TITLE and DOI of the card being processed
    lenAuthors, lenOrcids,   \* len(authors_proper), len(auth_proper_orcid)
    auth_i, item,            \* index of the author loop; the entries at that index
    article_id_last, auth_id_seen,
    db,                      \* committed ARTICLES, AUTHORS, ARTICLES_AUTHORS
    conn,                    \* the tables as the open transaction sees them
    TITLEWORDS,              \* committed word counts
    connector,               \* word counts as the mysql.connector session sees them
    connBound,               \* whether the name conn has been bound
    lastCard,                \* what became of the previous card of this page
                             \* ("empty_page": the page held no card)
    callprocLog,             \* the AddOrIncrementWord calls made: article id, word
    fetched,                 \* listing pages requested so far, in order
    seenNames,               \* derived names of the ORCID-less entries resolved so far
    cutoffLogged             \* "Exceeded max of ... pages searched!" printed

parseVars == << num_txt, num_int, li, date_data >>

vars == << num_txt, num_int, li, date_data,
           start_page, max_pages, schema, site, page_num, keepSeeking, pc, nSections, i, el,
           articles_entry, lenAuthors, lenOrcids, auth_i, item,
           article_id_last, auth_id_seen, db, conn, TITLEWORDS, connector,
           connBound, lastCard, callprocLog, fetched, seenNames, cutoffLogged >>

argVars == << start_page, max_pages, schema, site >>
txVars  == << lenAuthors, lenOrcids, auth_i, item, article_id_last, auth_id_seen >>
dbVars  == << db, conn >>
wordVars == << TITLEWORDS, connector, callprocLog >>

Columns == { "DOI", "FIRSTNAME", "LASTNAME", "ORCID" }

NoEntry == [ TITLE |-> <<>>, DOI |-> None ]

\* The detail page's author list and ORCID list are read once each, entry by
\* entry, at the index of the author loop: the state holds their lengths and
\* the two entries at the current index.  ORCID is NoIndex when the ORCID
\* list has no entry there.
NoIndex == <<"IndexError">>

NoItem == [ auth |-> <<>>, ORCID |-> None ]

\* What a card and its detail page hold, as far as the extraction reads it.
\* fault names the first statement of lines 144-183 that raises:
\*   no_title_link  .c-card__link matches nothing (IndexError, lines 144/148)
\*   detail_index   a selector of the detail page matches nothing, lines
\*                  155-161 (IndexError)
\*   detail_other   a metric or date text does not parse, the link has no
\*                  href, the request fails, lines 148-161 (not IndexError)
\*   check_query    the existence query of line 165, or engine.begin() of
\*                  line 163, raises (not IndexError)
\*   listing_index  a selector read after the DOI check matches nothing,
\*                  lines 170-183 (IndexError)
\*   listing_other  the time element has no datetime, line 171 (KeyError)
\*   none           nothing raises
EarlyFaults == { "no_title_link", "detail_index", "detail_other" }
LateFaults == { "listing_index", "listing_other", "none" }

NoCard == [ fault |-> "no_title_link", TITLE |-> <<>>, DOI |-> None ]

Cards ==
    { [ fault |-> f, TITLE |-> <<>>, DOI |-> None ] :
          f \in EarlyFaults \cup { "check_query" } }
    \cup { [ fault |-> f, TITLE |-> <<>>, DOI |-> d ] :
               f \in LateFaults \ { "none" }, d \in site.Dois }
    \cup { [ fault |-> "none", TITLE |-> t, DOI |-> d ] :
               t \in site.Titles, d \in site.Dois }

EmptyTables == [ ARTICLES |-> <<>>, AUTHORS |-> <<>>, ARTICLES_AUTHORS |-> <<>> ]

Init ==
    /\ \/ /\ site = PlainSite
          /\ start_page \in -1 .. (MaxPages + 1)
          /\ max_pages \in 0 .. MaxPages
       \/ /\ site \in { DoiSite, AuthorSite, NameSite }
          /\ start_page = 1
          /\ max_pages = 1
    /\ schema \in { [ c \in Columns |-> n ] : n \in 0 .. MaxColLen }
    /\ page_num = start_page - 1
    /\ keepSeeking = TRUE
    /\ pc = "while"
    /\ nSections = 0
    /\ i = 0
    /\ el = NoCard
    /\ articles_entry = NoEntry
    /\ lenAuthors = 0
    /\ lenOrcids = 0
    /\ auth_i = 0
    /\ item = NoItem
    /\ article_id_last = 0
    /\ auth_id_seen = {}
    /\ db = EmptyTables
    /\ conn = EmptyTables
    /\ TITLEWORDS = NoWords
    /\ connector = NoWords
    /\ callprocLog = {}
    /\ connBound = FALSE
    /\ lastCard = "none"
    /\ fetched = <<>>
    /\ seenNames = {}
    /\ cutoffLogged = FALSE
    /\ num_txt = <<>>
    /\ num_int = NotRun(0)
    /\ li = NoLi
    /\ date_data = NotRun(NoField)

\* ------------------------------------------------------------------ pagination

\* line 103: keepSeeking is false
WhileExit ==
    /\ pc = "while"
    /\ ~keepSeeking
    /\ pc' = "close"
    /\ UNCHANGED << parseVars, argVars, seenNames, page_num, keepSeeking, nSections, i, el, articles_entry,
                    txVars, dbVars, wordVars, connBound, lastCard, fetched, cutoffLogged >>

\* lines 105-109: the hard limit of pages
MaxPagesCutoff ==
    /\ pc = "while"
    /\ keepSeeking
    /\ page_num >= max_pages
    /\ cutoffLogged' = TRUE
    /\ pc' = "close"
    /\ UNCHANGED << parseVars, argVars, seenNames, page_num, keepSeeking, nSections, i, el, articles_entry,
                    txVars, dbVars, wordVars, connBound, lastCard, fetched >>

\* Faulty variant: the continue of line 115 comes before the increment of line 111
SkipPageStuck ==
    /\ pc = "while"
    /\ keepSeeking
    /\ page_num < max_pages
    /\ page_num + 1 < 0
    /\ page_num' = page_num
    /\ UNCHANGED << parseVars, argVars, seenNames, keepSeeking, pc, nSections, i, el, articles_entry,
                    txVars, dbVars, wordVars, connBound, lastCard, fetched, cutoffLogged >>

\* lines 111-115: a negative page number is passed over without a request
SkipPage ==
    /\ pc = "while"
    /\ keepSeeking
    /\ page_num < max_pages
    /\ page_num + 1 < 0
    /\ page_num' = page_num + 1
    /\ UNCHANGED << parseVars, argVars, seenNames, keepSeeking, pc, nSections, i, el, articles_entry,
                    txVars, dbVars, wordVars, connBound, lastCard, fetched, cutoffLogged >>

\* Faulty variant: the empty page does not clear keepSeeking
FetchEmptyPageKeepsSeeking ==
    /\ pc = "while"
    /\ keepSeeking
    /\ page_num < max_pages
    /\ page_num + 1 >= 0
    /\ page_num' = page_num + 1
    /\ fetched' = Append(fetched, page_num + 1)
    /\ keepSeeking' = keepSeeking
    /\ lastCard' = "empty_page"
    /\ UNCHANGED << parseVars, argVars, seenNames, pc, nSections, i, el, articles_entry,
                    txVars, dbVars, wordVars, connBound, cutoffLogged >>

\* lines 111-128: the page is requested and holds no section
FetchEmptyPage ==
    /\ pc = "while"
    /\ keepSeeking
    /\ page_num < max_pages
    /\ page_num + 1 >= 0
    /\ page_num' = page_num + 1
    /\ fetched' = Append(fetched, page_num + 1)
    /\ keepSeeking' = FALSE
    /\ lastCard' = "empty_page"
    /\ UNCHANGED << parseVars, argVars, seenNames, pc, nSections, i, el, articles_entry,
                    txVars, dbVars, wordVars, connBound, cutoffLogged >>

\* lines 111-131: the page is requested and holds n sections
FetchPage ==
    /\ pc = "while"
    /\ keepSeeking
    /\ page_num < max_pages
    /\ page_num + 1 >= 0
    /\ page_num' = page_num + 1
    /\ fetched' = Append(fetched, page_num + 1)
    /\ \E n \in 1..MaxCards : nSections' = n
    /\ i' = 0
    /\ lastCard' = "none"
    /\ pc' = "for"
    /\ UNCHANGED << parseVars, argVars, seenNames, keepSeeking, el, articles_entry,
                    txVars, dbVars, wordVars, connBound, cutoffLogged >>

\* lines 131-137: the sections are exhausted, or the card limit is reached
ForExit ==
    /\ pc = "for"
    /\ (i >= nSections \/ i >= CardLimit)
    /\ pc' = "while"
    /\ UNCHANGED << parseVars, argVars, seenNames, page_num, keepSeeking, nSections, i, el, articles_entry,
                    txVars, dbVars, wordVars, connBound, lastCard, fetched, cutoffLogged >>

\* lines 131-139: the next card
ForNext ==
    /\ pc = "for"
    /\ i < nSections
    /\ i < CardLimit
    /\ el' \in Cards
    /\ articles_entry' = NoEntry
    /\ pc' = "extract"
    /\ UNCHANGED << parseVars, argVars, seenNames, page_num, keepSeeking, nSections, i,
                    txVars, dbVars, wordVars, connBound, lastCard, fetched, cutoffLogged >>

\* ------------------------------------------------------------------ extraction

\* "continue" of the for loop (lines 167, 186); the card is not read again
continueFor ==
    /\ i' = i + 1
    /\ el' = NoCard
    /\ pc' = "for"

\* "break" of the for loop (line 190): back to the head of the while loop
breakFor ==
    /\ i' = i
    /\ el' = NoCard
    /\ pc' = "while"

\* whether the except clause that handles the card's fault continues
\* (except IndexError, line 185) or breaks (except Exception, line 187)
IsIndexError(fault) == fault \in { "no_title_link", "detail_index", "listing_index" }

\* lines 143-161 raise before the DOI check
ExtractRaisesEarly ==
    /\ pc = "extract"
    /\ el.fault \in EarlyFaults
    /\ IF IsIndexError(el.fault) THEN continueFor ELSE breakFor
    /\ lastCard' = el.fault
    /\ UNCHANGED << parseVars, argVars, seenNames, page_num, keepSeeking, nSections, articles_entry,
                    txVars, dbVars, wordVars, connBound, fetched, cutoffLogged >>

\* lines 163-165: engine.begin() raises (conn is not bound) or the existence
\* query raises (conn is bound); handled at line 187
CheckRaises ==
    /\ pc = "extract"
    /\ el.fault = "check_query"
    /\ connBound' \in { connBound, TRUE }
    /\ breakFor
    /\ lastCard' = el.fault
    /\ UNCHANGED << parseVars, argVars, seenNames, page_num, keepSeeking, nSections, articles_entry,
                    txVars, dbVars, wordVars, fetched, cutoffLogged >>

\* Faulty variant: the continue of line 167 is missing: the card is extracted and
\* inserted like a new one
AlreadySeenFallsThrough ==
    /\ pc = "extract"
    /\ el.fault = "none"
    /\ elemInDB(el.DOI, "DOI", db.ARTICLES)
    /\ articles_entry' = [ TITLE |-> el.TITLE, DOI |-> el.DOI ]
    /\ lenAuthors' \in 0..MaxAuthors
    /\ lenOrcids' \in 0..MaxAuthors
    /\ connBound' = TRUE
    /\ el' = NoCard
    /\ pc' = "tx"
    /\ UNCHANGED << parseVars, argVars, seenNames, page_num, keepSeeking, nSections, i,
                    auth_i, item, article_id_last, auth_id_seen,
                    dbVars, wordVars, lastCard, fetched, cutoffLogged >>

\* lines 163-167: the DOI is found in ARTICLES
AlreadySeen ==
    /\ pc = "extract"
    /\ el.fault \in LateFaults
    /\ elemInDB(el.DOI, "DOI", db.ARTICLES)
    /\ connBound' = TRUE
    /\ continueFor
    /\ lastCard' = "seen"
    /\ UNCHANGED << parseVars, argVars, seenNames, page_num, keepSeeking, nSections, articles_entry,
                    txVars, dbVars, wordVars, fetched, cutoffLogged >>

\* lines 163-183: the DOI is new and a later statement raises
ExtractRaisesLate ==
    /\ pc = "extract"
    /\ el.fault \in LateFaults \ { "none" }
    /\ ~elemInDB(el.DOI, "DOI", db.ARTICLES)
    /\ connBound' = TRUE
    /\ IF IsIndexError(el.fault) THEN continueFor ELSE breakFor
    /\ lastCard' = el.fault
    /\ UNCHANGED << parseVars, argVars, seenNames, page_num, keepSeeking, nSections, articles_entry,
                    txVars, dbVars, wordVars, fetched, cutoffLogged >>

\* lines 143-183 without exception: the card is new and fully extracted
Extracted ==
    /\ pc = "extract"
    /\ el.fault = "none"
    /\ ~elemInDB(el.DOI, "DOI", db.ARTICLES)
    /\ articles_entry' = [ TITLE |-> el.TITLE, DOI |-> el.DOI ]
    /\ lenAuthors' \in 0..MaxAuthors
    /\ lenOrcids' \in 0..MaxAuthors
    /\ connBound' = TRUE
    /\ el' = NoCard
    /\ pc' = "tx"
    /\ UNCHANGED << parseVars, argVars, seenNames, page_num, keepSeeking, nSections, i,
                    auth_i, item, article_id_last, auth_id_seen,
                    dbVars, wordVars, lastCard, fetched, cutoffLogged >>

\* ------------------------------------------------------------------ insertion

\* Values that are never read again before they are assigned anew are
\* cleared when the script leaves the block that used them; this merges
\* states that differ in dead values only.
clearTx ==
    /\ lenAuthors' = 0
    /\ lenOrcids' = 0
    /\ auth_i' = 0
    /\ item' = NoItem
    /\ auth_id_seen' = {}

\* Faulty variant: the statements run in autocommit: what was written stays
insertFailedNoRollback ==
    /\ conn' = conn
    /\ db' = conn
    /\ keepSeeking' = FALSE
    /\ pc' = "while"
    /\ clearTx
    /\ articles_entry' = NoEntry
    /\ article_id_last' = 0
    /\ seenNames' = {}

\* Faulty variant: the handler does not clear keepSeeking
insertFailedKeepsSeeking ==
    /\ conn' = db
    /\ db' = db
    /\ keepSeeking' = keepSeeking
    /\ pc' = "while"
    /\ clearTx
    /\ articles_entry' = NoEntry
    /\ article_id_last' = 0
    /\ seenNames' = {}

\* lines 245-252: the handler of the insertion stage.  The with block has
\* rolled the transaction back on the way out.
insertFailed ==
    /\ conn' = db
    /\ db' = db
    /\ keepSeeking' = FALSE
    /\ pc' = "while"
    /\ clearTx
    /\ articles_entry' = NoEntry
    /\ article_id_last' = 0
    /\ seenNames' = {}

\* the ARTICLES row myInsert stores (line 195); ID is the auto-increment key
articleRow(entry, id) ==
    [ ID |-> id, DOI |-> myInsertValue(entry.DOI, schema["DOI"]) ]

\* the AUTHORS row myInsert stores (line 223)
authorRow(auth_single_dict, id) ==
    [ ID        |-> id,
      FIRSTNAME |-> myInsertValue(auth_single_dict.FIRSTNAME, schema["FIRSTNAME"]),
      LASTNAME  |-> myInsertValue(auth_single_dict.LASTNAME, schema["LASTNAME"]),
      ORCID     |-> myInsertValue(auth_single_dict.ORCID, schema["ORCID"]) ]

\* lines 207-218: the rows of AUTHORS the lookup selects, by ORCID when
\* there is one and by first and last name otherwise
selectAuthors(table, auth_single_dict) ==
    { k \in 1..Len(table) :
        IF auth_single_dict.ORCID # None
        THEN Matches(table[k].ORCID, auth_single_dict.ORCID)
        ELSE /\ Matches(table[k].FIRSTNAME, auth_single_dict.FIRSTNAME)
             /\ Matches(table[k].LASTNAME, auth_single_dict.LASTNAME) }

\* Faulty variant: the auth_id_seen test is dropped
linkWantedAlways(auth_id, seen) == TRUE

\* line 230: whether a link row is written for the resolved author
linkWanted(auth_id, seen) == auth_id \notin seen

\* lines 230-234: the link table after the resolved author is handled
linkInsert(links, article_id, auth_id, seen) ==
    IF linkWanted(auth_id, seen)
    THEN Append(links, [ ARTICLE_ID |-> article_id, AUTHOR_ID |-> auth_id ])
    ELSE links

\* Faulty variant: article_id_last is not taken from the inserted row (line 196 is
\* missing), the links carry the ID left from before
TxInsertArticleStaleId ==
    /\ pc = "tx"
    /\ LET id == Len(db.ARTICLES) + 1
       IN  /\ conn' = [ db EXCEPT !.ARTICLES = Append(@, articleRow(articles_entry, id)) ]
           /\ article_id_last' = article_id_last
    /\ auth_id_seen' = {}
    /\ auth_i' = 0
    /\ pc' = "auth"
    /\ UNCHANGED << parseVars, argVars, seenNames, page_num, keepSeeking, nSections, i, el, articles_entry,
                    lenAuthors, lenOrcids, item, db, wordVars, connBound, lastCard,
                    fetched, cutoffLogged >>

\* Faulty variant: the words of the title are counted, and committed, before the
\* transaction of the article
TxInsertArticleCountsWords ==
    /\ pc = "tx"
    /\ LET id == Len(db.ARTICLES) + 1
           ws == cleaned_title(articles_entry.TITLE)
       IN  /\ conn' = [ db EXCEPT !.ARTICLES = Append(@, articleRow(articles_entry, id)) ]
           /\ article_id_last' = id
           /\ connector' = callprocAll(connector, ws)
           /\ TITLEWORDS' = callprocAll(connector, ws)
           /\ callprocLog' = callprocLog
                  \cup { [ ARTICLE_ID |-> id, word |-> ws[k] ] : k \in 1..Len(ws) }
    /\ auth_id_seen' = {}
    /\ auth_i' = 0
    /\ pc' = "auth"
    /\ UNCHANGED << parseVars, argVars, seenNames, page_num, keepSeeking, nSections, i, el, articles_entry,
                    lenAuthors, lenOrcids, item, db, connBound, lastCard,
                    fetched, cutoffLogged >>

\* lines 193-198: the transaction begins on the committed tables and the
\* article row is inserted
TxInsertArticle ==
    /\ pc = "tx"
    /\ LET id == Len(db.ARTICLES) + 1
       IN  /\ conn' = [ db EXCEPT !.ARTICLES = Append(@, articleRow(articles_entry, id)) ]
           /\ article_id_last' = id
    /\ auth_id_seen' = {}
    /\ auth_i' = 0
    /\ pc' = "auth"
    /\ UNCHANGED << parseVars, argVars, seenNames, page_num, keepSeeking, nSections, i, el, articles_entry,
                    lenAuthors, lenOrcids, item, db, wordVars, connBound, lastCard,
                    fetched, cutoffLogged >>

\* line 199: the next entry of authors_proper, with the entry of
\* auth_proper_orcid at the same index
AuthorNext ==
    /\ pc = "auth"
    /\ auth_i < lenAuthors
    /\ \E name \in site.Names :
       \E orcid \in (IF auth_i < lenOrcids THEN site.Orcids ELSE { NoIndex }) :
          item' = [ auth |-> name, ORCID |-> orcid ]
    /\ pc' = "resolve"
    /\ UNCHANGED << parseVars, argVars, seenNames, page_num, keepSeeking, nSections, i, el, articles_entry,
                    lenAuthors, lenOrcids, auth_i, article_id_last, auth_id_seen,
                    dbVars, wordVars, connBound, lastCard, fetched, cutoffLogged >>

\* the author loop goes on with the next index
nextAuthor ==
    /\ auth_i' = auth_i + 1
    /\ item' = NoItem
    /\ pc' = "auth"

\* Faulty variant: break instead of continue at line 202
AuthorSkippedEndsLoop ==
    /\ pc = "resolve"
    /\ getSingleAuthorDict(item.auth).FIRSTNAME = <<>>
    /\ auth_i' = lenAuthors
    /\ item' = NoItem
    /\ pc' = "auth"
    /\ UNCHANGED << parseVars, argVars, seenNames, page_num, keepSeeking, nSections, i, el, articles_entry,
                    lenAuthors, lenOrcids, article_id_last, auth_id_seen,
                    dbVars, wordVars, connBound, lastCard, fetched, cutoffLogged >>

\* lines 200-202: an entry without a first name is passed over
AuthorSkipped ==
    /\ pc = "resolve"
    /\ getSingleAuthorDict(item.auth).FIRSTNAME = <<>>
    /\ nextAuthor
    /\ UNCHANGED << parseVars, argVars, seenNames, page_num, keepSeeking, nSections, i, el, articles_entry,
                    lenAuthors, lenOrcids, article_id_last, auth_id_seen,
                    dbVars, wordVars, connBound, lastCard, fetched, cutoffLogged >>

\* Faulty variant: an entry without ORCID entry is passed over like one without
\* first name
AuthorOrcidIndexIgnored ==
    /\ pc = "resolve"
    /\ getSingleAuthorDict(item.auth).FIRSTNAME # <<>>
    /\ item.ORCID = NoIndex
    /\ nextAuthor
    /\ UNCHANGED << parseVars, argVars, seenNames, page_num, keepSeeking, nSections, i, el,
                    articles_entry, lenAuthors, lenOrcids, article_id_last, auth_id_seen,
                    dbVars, wordVars, connBound, lastCard, fetched, cutoffLogged >>

\* line 204: the ORCID list has no entry at auth_i (IndexError)
AuthorOrcidIndexError ==
    /\ pc = "resolve"
    /\ getSingleAuthorDict(item.auth).FIRSTNAME # <<>>
    /\ item.ORCID = NoIndex
    /\ insertFailed
    /\ lastCard' = "orcid_index"
    /\ UNCHANGED << parseVars, argVars, page_num, nSections, i, el,
                    wordVars, connBound, fetched, cutoffLogged >>

\* auth_single_dict of lines 200-204
authSingleDict(it) ==
    [ FIRSTNAME |-> getSingleAuthorDict(it.auth).FIRSTNAME,
      LASTNAME  |-> getSingleAuthorDict(it.auth).LASTNAME,
      ORCID     |-> it.ORCID ]

\* the names an entry is looked up by when it has no ORCID (lines 215-216)
derivedName(it) ==
    [ FIRSTNAME |-> getSingleAuthorDict(it.auth).FIRSTNAME,
      LASTNAME  |-> getSingleAuthorDict(it.auth).LASTNAME ]

\* seenNames after the entry it has been resolved
noteName(it) ==
    seenNames' = IF it.ORCID = None THEN seenNames \cup { derivedName(it) } ELSE seenNames

\* lines 204-234 when the lookup selects nothing: a new AUTHORS row
AuthorInserted ==
    /\ pc = "resolve"
    /\ getSingleAuthorDict(item.auth).FIRSTNAME # <<>>
    /\ item.ORCID # NoIndex
    /\ selectAuthors(conn.AUTHORS, authSingleDict(item)) = {}
    /\ LET auth_id == Len(conn.AUTHORS) + 1
       IN  /\ conn' = [ conn EXCEPT
                          !.AUTHORS = Append(@, authorRow(authSingleDict(item), auth_id)),
                          !.ARTICLES_AUTHORS =
                              linkInsert(@, article_id_last, auth_id, auth_id_seen) ]
           /\ auth_id_seen' = auth_id_seen \cup { auth_id }
    /\ noteName(item)
    /\ nextAuthor
    /\ UNCHANGED << parseVars, argVars, page_num, keepSeeking, nSections, i, el, articles_entry,
                    lenAuthors, lenOrcids, article_id_last,
                    db, wordVars, connBound, lastCard, fetched, cutoffLogged >>

\* lines 204-234 when the lookup selects rows: first() yields one of them
\* (the query has no ORDER BY)
AuthorFound ==
    /\ pc = "resolve"
    /\ getSingleAuthorDict(item.auth).FIRSTNAME # <<>>
    /\ item.ORCID # NoIndex
    /\ \E k \in selectAuthors(conn.AUTHORS, authSingleDict(item)) :
          LET auth_id == conn.AUTHORS[k].ID
          IN  /\ conn' = [ conn EXCEPT
                             !.ARTICLES_AUTHORS =
                                 linkInsert(@, article_id_last, auth_id, auth_id_seen) ]
              /\ auth_id_seen' = auth_id_seen \cup { auth_id }
    /\ noteName(item)
    /\ nextAuthor
    /\ UNCHANGED << parseVars, argVars, page_num, keepSeeking, nSections, i, el, articles_entry,
                    lenAuthors, lenOrcids, article_id_last,
                    db, wordVars, connBound, lastCard, fetched, cutoffLogged >>

\* line 234 to 236: the with block ends and the transaction commits
TxCommit ==
    /\ pc = "auth"
    /\ auth_i >= lenAuthors
    /\ db' = conn
    /\ clearTx
    /\ pc' = "words"
    /\ UNCHANGED << parseVars, argVars, seenNames, page_num, keepSeeking, nSections, i, el, articles_entry,
                    article_id_last, conn, wordVars, connBound, lastCard, fetched, cutoffLogged >>

\* lines 193-234: a statement of the transaction, or its commit, raises (an
\* entry that is passed over, or that has no ORCID entry, runs no statement)
TxRaises ==
    /\ pc \in { "tx", "auth", "resolve" }
    /\ pc = "resolve" =>
          (getSingleAuthorDict(item.auth).FIRSTNAME # <<>> /\ item.ORCID # NoIndex)
    /\ insertFailed
    /\ lastCard' = "insert_failed"
    /\ UNCHANGED << parseVars, argVars, page_num, nSections, i, el,
                    wordVars, connBound, fetched, cutoffLogged >>

\* ------------------------------------------------------------------ title words

\* the calls of a run of the word loop as log entries
logged(id, ws) == { [ ARTICLE_ID |-> id, word |-> ws[k] ] : k \in 1..Len(ws) }

\* lines 238-243: every word is counted and the connector commits
WordsCommitted ==
    /\ pc = "words"
    /\ LET ws == cleaned_title(articles_entry.TITLE)
       IN  /\ connector' = callprocAll(connector, ws)
           /\ TITLEWORDS' = callprocAll(connector, ws)
           /\ callprocLog' = callprocLog \cup logged(article_id_last, ws)
    /\ article_id_last' = 0
    /\ articles_entry' = NoEntry
    /\ continueFor
    /\ lastCard' = "inserted"
    /\ UNCHANGED << parseVars, argVars, seenNames, page_num, keepSeeking, nSections,
                    lenAuthors, lenOrcids, auth_i, item, auth_id_seen,
                    dbVars, connBound, fetched, cutoffLogged >>

\* Faulty variant: the connector runs in autocommit, every call that
\* succeeded is committed
WordsRaisesAutocommit ==
    /\ pc = "words"
    /\ LET ws == cleaned_title(articles_entry.TITLE)
       IN  \E n \in 0..Len(ws) :
             /\ connector' = callprocAll(connector, SubSeq(ws, 1, n))
             /\ TITLEWORDS' = callprocAll(connector, SubSeq(ws, 1, n))
             /\ callprocLog' = callprocLog
                    \cup logged(article_id_last, SubSeq(ws, 1, Min(n + 1, Len(ws))))
    /\ keepSeeking' = FALSE
    /\ pc' = "while"
    /\ article_id_last' = 0
    /\ articles_entry' = NoEntry
    /\ lastCard' = "words_failed"
    /\ UNCHANGED << parseVars, argVars, seenNames, page_num, nSections, i, el,
                    lenAuthors, lenOrcids, auth_i, item, auth_id_seen,
                    dbVars, connBound, fetched, cutoffLogged >>

\* lines 238-252: after n successful calls a call, or the commit, raises;
\* nothing of the connector's session is committed
WordsRaises ==
    /\ pc = "words"
    /\ LET ws == cleaned_title(articles_entry.TITLE)
       IN  \E n \in 0..Len(ws) :
             /\ connector' = callprocAll(connector, SubSeq(ws, 1, n))
             /\ callprocLog' = callprocLog
                    \cup logged(article_id_last, SubSeq(ws, 1, Min(n + 1, Len(ws))))
    /\ TITLEWORDS' = TITLEWORDS
    /\ keepSeeking' = FALSE
    /\ pc' = "while"
    /\ article_id_last' = 0
    /\ articles_entry' = NoEntry
    /\ lastCard' = "words_failed"
    /\ UNCHANGED << parseVars, argVars, seenNames, page_num, nSections, i, el,
                    lenAuthors, lenOrcids, auth_i, item, auth_id_seen,
                    dbVars, connBound, fetched, cutoffLogged >>

\* ------------------------------------------------------------------ the end

\* lines 254-256: conn.close() and the completion report
CloseAndReport ==
    /\ pc = "close"
    /\ connBound
    /\ pc' = "done"
    /\ UNCHANGED << parseVars, argVars, seenNames, page_num, keepSeeking, nSections, i, el, articles_entry,
                    txVars, dbVars, wordVars, connBound, lastCard, fetched, cutoffLogged >>

\* line 254 when no with block ever bound conn: NameError, the script dies
CloseNameError ==
    /\ pc = "close"
    /\ ~connBound
    /\ pc' = "crashed"
    /\ UNCHANGED << parseVars, argVars, seenNames, page_num, keepSeeking, nSections, i, el, articles_entry,
                    txVars, dbVars, wordVars, connBound, lastCard, fetched, cutoffLogged >>

Next ==
    \/ WhileExit
    \/ MaxPagesCutoff
    \/ SkipPage
    \/ FetchEmptyPage
    \/ FetchPage
    \/ ForExit
    \/ ForNext
    \/ ExtractRaisesEarly
    \/ CheckRaises
    \/ AlreadySeen
    \/ ExtractRaisesLate
    \/ Extracted
    \/ TxInsertArticle
    \/ AuthorNext
    \/ AuthorSkipped
    \/ AuthorOrcidIndexError
    \/ AuthorInserted
    \/ AuthorFound
    \/ TxCommit
    \/ TxRaises
    \/ WordsCommitted
    \/ WordsRaises
    \/ CloseAndReport
    \/ CloseNameError

Spec == Init /\ [][Next]_vars

\* The parsers of NatureArticle.py on their own: a count text or a list
\* item is drawn and the parser is called on it once; the crawl stands still.
crawlVars == << start_page, max_pages, schema, site, page_num, keepSeeking, pc, nSections,
                i, el, articles_entry, lenAuthors, lenOrcids, auth_i, item,
                article_id_last, auth_id_seen, db, conn, TITLEWORDS, connector,
                connBound, lastCard, callprocLog, fetched, seenNames, cutoffLogged >>

ParseInit ==
    /\ site = PlainSite
    /\ start_page = 1
    /\ max_pages = 1
    /\ schema = [ c \in Columns |-> 0 ]
    /\ page_num = start_page - 1
    /\ keepSeeking = TRUE
    /\ pc = "extract"
    /\ nSections = 1
    /\ i = 0
    /\ el = NoCard
    /\ articles_entry = NoEntry
    /\ lenAuthors = 0
    /\ lenOrcids = 0
    /\ auth_i = 0
    /\ item = NoItem
    /\ article_id_last = 0
    /\ auth_id_seen = {}
    /\ db = EmptyTables
    /\ conn = EmptyTables
    /\ TITLEWORDS = NoWords
    /\ connector = NoWords
    /\ callprocLog = {}
    /\ connBound = FALSE
    /\ lastCard = "none"
    /\ fetched = << 1 >>
    /\ seenNames = {}
    /\ cutoffLogged = FALSE
    /\ num_int = NotRun(0)
    /\ date_data = NotRun(NoField)
    /\ \/ num_txt \in CountTexts /\ li = NoLi
       \/ num_txt = <<>> /\ li \in DateItems

\* lines 86-93 for one metric of the bar
CallMetrics ==
    /\ li = NoLi
    /\ num_int = NotRun(0)
    /\ num_int' = metrics(num_txt)
    /\ UNCHANGED << crawlVars, num_txt, li, date_data >>

\* lines 109-115 for one list item
CallDateList ==
    /\ li # NoLi
    /\ date_data = NotRun(NoField)
    /\ date_data' = dateList(li)
    /\ UNCHANGED << crawlVars, num_txt, num_int, li >>

ParseNext ==
    \/ CallMetrics
    \/ CallDateList

ParseSpec == ParseInit /\ [][ParseNext]_vars

\* The script is one sequential process: as long as every request and every
\* database call returns, its next statement is executed.
FairSpec == Spec /\ WF_vars(Next)

\* ------------------------------------------------------------ properties

\* the script is inside the insert transaction of lines 193-234
InTx == pc \in { "tx", "auth", "resolve" }

\* the script is working on a card: extraction, transaction or word count
OnCard == pc \in { "extract", "tx", "auth", "resolve", "words" }

\* the link rows of a table that belong to one article
linksOf(links, article_id) ==
    { k \in 1..Len(links) : links[k].ARTICLE_ID = article_id }

\* C1: after any crawl, no two rows of ARTICLES hold the same (non-NULL)
\* DOI, whatever DOIs the detail pages yield and whatever length the DOI
\* column has.
C1_DoiUnique ==
    \A j, k \in 1..Len(db.ARTICLES) :
        (j # k /\ db.ARTICLES[j].DOI # None) => db.ARTICLES[j].DOI # db.ARTICLES[k].DOI

\* C2: an author entry whose non-NULL ORCID equals the ORCID of a row of
\* AUTHORS resolves to a row with that ORCID and inserts no AUTHORS row, and
\* so no two rows of AUTHORS ever share a non-NULL ORCID.
C2_OrcidResolvesToExisting ==
    \A j, k \in 1..Len(db.AUTHORS) :
        (j # k /\ db.AUTHORS[j].ORCID # None) => db.AUTHORS[j].ORCID # db.AUTHORS[k].ORCID

\* The first half of C2 alone: when the entry's ORCID is the ORCID of a row
\* of AUTHORS, the step resolves to such a row and AUTHORS stays as it is.
ExistingOrcidReused ==
    [][ ( /\ pc = "resolve"
          /\ pc' = "auth"
          /\ getSingleAuthorDict(item.auth).FIRSTNAME # <<>>
          /\ item.ORCID \notin { None, NoIndex }
          /\ \E k \in 1..Len(conn.AUTHORS) : conn.AUTHORS[k].ORCID = item.ORCID )
        => ( /\ conn'.AUTHORS = conn.AUTHORS
             /\ \E k \in 1..Len(conn.AUTHORS) :
                   /\ conn.AUTHORS[k].ORCID = item.ORCID
                   /\ auth_id_seen' = auth_id_seen \cup { conn.AUTHORS[k].ID } ) ]_vars

\* C3: the link table holds exactly one row per author ID resolved for an
\* article: no (article, author) pair occurs twice, in the transaction and
\* in the committed table, and while an article's authors are resolved the
\* authors linked to it are exactly the IDs resolved so far.
C3_OneLinkPerAuthor ==
    /\ \A j, k \in 1..Len(conn.ARTICLES_AUTHORS) :
          j # k => conn.ARTICLES_AUTHORS[j] # conn.ARTICLES_AUTHORS[k]
    /\ \A j, k \in 1..Len(db.ARTICLES_AUTHORS) :
          j # k => db.ARTICLES_AUTHORS[j] # db.ARTICLES_AUTHORS[k]
    /\ pc \in { "auth", "resolve" } =>
          /\ { conn.ARTICLES_AUTHORS[k].AUTHOR_ID :
                  k \in linksOf(conn.ARTICLES_AUTHORS, article_id_last) } = auth_id_seen
          /\ Cardinality(linksOf(conn.ARTICLES_AUTHORS, article_id_last))
                = Cardinality(auth_id_seen)

\* C3, witness: on a site whose author names all have a first name, two
\* entries of one article have been resolved to the same ID, that of an
\* AUTHORS row created in this transaction, and the article has one link row.
C3_Witness ==
    /\ site.Names = { <<"a", " ", "b">> }
    /\ pc = "auth"
    /\ auth_i = 2
    /\ Len(db.AUTHORS) = 0
    /\ Len(conn.AUTHORS) = 1
    /\ auth_id_seen = { 1 }
    /\ Cardinality(linksOf(conn.ARTICLES_AUTHORS, article_id_last)) = 1

\* C4: once a card of a page had no title link, no later card of that page
\* is processed (the page ends there and the crawl goes on).
C4_PageStopsAtMissingTitleLink ==
    lastCard = "no_title_link" => (~OnCard /\ keepSeeking)

\* C5: processing a card whose DOI the existence check finds in ARTICLES
\* changes no table and no word count, starts no transaction, and goes on
\* with the next card of the page.
C5_SeenIsSkipped ==
    [][ ( /\ pc = "extract"
          /\ el.fault \in LateFaults
          /\ \E k \in 1..Len(db.ARTICLES) : Matches(db.ARTICLES[k].DOI, el.DOI) )
        => ( /\ db' = db
             /\ conn' = conn
             /\ TITLEWORDS' = TITLEWORDS
             /\ connector' = connector
             /\ callprocLog' = callprocLog
             /\ pc' = "for"
             /\ i' = i + 1
             /\ nSections' = nSections
             /\ page_num' = page_num
             /\ keepSeeking' = keepSeeking ) ]_vars

\* C5, witness: a card was skipped as already seen and the next card of
\* the same page is being processed.
C5_Witness ==
    /\ lastCard = "seen"
    /\ pc = "extract"
    /\ Len(db.ARTICLES) >= 1

\* C6: the committed tables change only when a transaction commits, and
\* then to everything the transaction wrote (the article row among it); an
\* exception inside the transaction leaves the committed tables as they
\* were and discards what the transaction wrote.
C6_Atomic ==
    [][ /\ (db' # db) =>
              /\ pc = "auth"
              /\ pc' = "words"
              /\ db' = conn
              /\ Len(db'.ARTICLES) = Len(db.ARTICLES) + 1
              /\ db'.ARTICLES[Len(db'.ARTICLES)].ID = article_id_last
        /\ (InTx /\ pc' = "while") => (db' = db /\ conn' = db)
        /\ ~InTx' => conn' = db' ]_vars

\* C6, witness: line 204 raised during author resolution of a second
\* article, after its article row was written; the first article is all
\* that is stored.
C6_Witness ==
    /\ lastCard = "orcid_index"
    /\ Len(db.ARTICLES) = 1
    /\ conn = db

\* C7: no more listing pages are fetched than --max_pages, and none beyond
\* the cutoff.
C7_FetchedWithinMax ==
    /\ Len(fetched) <= max_pages
    /\ \A k \in 1..Len(fetched) : fetched[k] <= max_pages

\* C8: once the extraction of a card failed for another reason than its
\* own missing title link, no later card of that page is processed and the
\* crawl goes on.
C8_PageStopsAtExtractionError ==
    lastCard \in { "detail_index", "detail_other", "check_query",
                   "listing_index", "listing_other" }
        => (~OnCard /\ keepSeeking)

\* an exception was raised in the insertion stage (lines 192-243)
InsertionFailed == lastCard \in { "insert_failed", "orcid_index", "words_failed" }

\* C9: after an exception of the insertion stage the crawl is over: the
\* script is on its way out of the while loop, and from then on no card is
\* processed, no page is fetched and no table or word count changes.
C9_InsertionErrorAbortsCrawl ==
    [][ /\ InsertionFailed' =>
              (~keepSeeking' /\ pc' \in { "while", "close", "done" })
        /\ InsertionFailed =>
              /\ InsertionFailed'
              /\ fetched' = fetched
              /\ db' = db
              /\ conn' = conn
              /\ TITLEWORDS' = TITLEWORDS
              /\ callprocLog' = callprocLog ]_vars

\* C9, witness: the crawl ended after an insertion exception although the
\* page limit allowed further pages.
C9_Witness ==
    /\ InsertionFailed
    /\ pc = "done"
    /\ page_num < max_pages

\* C10: AddOrIncrementWord is called only for articles whose row is
\* committed, and the committed counts stem from these calls.
C10_WordsOnlyAfterCommit ==
    /\ \A e \in callprocLog :
          \E k \in 1..Len(db.ARTICLES) : db.ARTICLES[k].ID = e.ARTICLE_ID
    /\ \A w \in Words :
          TITLEWORDS[w] <= Cardinality({ e \in callprocLog : e.word = w })
    /\ (InTx \/ pc = "extract") => connector = TITLEWORDS

\* C10, witness: the words of a committed article have been counted and
\* the crawl goes on.
C10_Witness ==
    /\ lastCard = "inserted"
    /\ callprocLog # {}
    /\ \E w \in Words : TITLEWORDS[w] >= 1

\* C11: once a fetched listing page held no section, the loop is left
\* without the cutoff message: from then on no page is fetched, no table and
\* no word count changes, no card is processed and the message of lines
\* 106-108 is not printed.
C11_EmptyPageEndsCrawl ==
    [][ /\ lastCard' = "empty_page" => (~keepSeeking' /\ ~cutoffLogged' /\ ~OnCard')
        /\ lastCard = "empty_page" =>
              /\ lastCard' = "empty_page"
              /\ fetched' = fetched
              /\ db' = db
              /\ conn' = conn
              /\ TITLEWORDS' = TITLEWORDS
              /\ callprocLog' = callprocLog
              /\ pc' \in { "close", "done", "crashed" } ]_vars

\* C11, witness: the run is over after an empty page that followed a page
\* with an inserted article, with pages left below the limit.
C11_Witness ==
    /\ lastCard = "empty_page"
    /\ pc = "done"
    /\ Len(fetched) = 2
    /\ page_num < max_pages
    /\ Len(db.ARTICLES) >= 1
    /\ ~cutoffLogged

\* the numbers of the fetched pages go up by one from page to page
FetchedConsecutive ==
    \A k \in 1..(Len(fetched) - 1) : fetched[k + 1] = fetched[k] + 1

\* C12: the pages fetched are numbered start_page, start_page + 1, ... :
\* the first request is for --start_page and each later one for the
\* number after the previous one.
C12_ConsecutiveFromStart ==
    /\ fetched # <<>> => fetched[1] = start_page
    /\ FetchedConsecutive

\* C13: every run terminates: the while loop is left after an empty page, at
\* the page limit or after an exception of the insertion stage, and the
\* script then ends.
C13_Terminates ==
    /\ [](pc = "close" => (lastCard = "empty_page" \/ cutoffLogged \/ InsertionFailed))
    /\ <>(pc \in { "done", "crashed" })

\* C13, witness: every page up to the largest limit held sections and the
\* loop was left at the cutoff.
C13_Witness ==
    /\ pc = "close"
    /\ cutoffLogged
    /\ max_pages = MaxPages
    /\ Len(fetched) >= MaxPages
    /\ lastCard # "empty_page"

\* The count texts of the metrics bar: a number, a number of thousands
\* ("12k"), and thousands with one decimal ("1.2k").
IsNumber(t) == t # <<>> /\ \A k \in 1..Len(t) : IsDigit(t[k])

IsThousands(t) == endswith(t, "k") /\ IsNumber(SubSeq(t, 1, Len(t) - 1))

IsDecimalThousands(t) ==
    /\ Len(t) >= 4
    /\ t[Len(t)] = "k"
    /\ IsDigit(t[Len(t) - 1])
    /\ t[Len(t) - 2] = "."
    /\ IsNumber(SubSeq(t, 1, Len(t) - 3))

\* the number a count text stands for
CountValue(t) ==
    IF IsNumber(t) THEN digitsValue(t)
    ELSE IF IsThousands(t) THEN digitsValue(SubSeq(t, 1, Len(t) - 1)) * 1000
    ELSE digitsValue(SubSeq(t, 1, Len(t) - 3)) * 1000 + digitValue(t[Len(t) - 1]) * 100

\* C14: the metrics parser turns every count text of the three forms into
\* the integer it stands for ("250" into 250, "12k" into 12000, "1.2k" into
\* 1200).
C14_MetricsParsed ==
    (num_int # NotRun(0) /\ (IsNumber(num_txt) \/ IsThousands(num_txt) \/ IsDecimalThousands(num_txt)))
        => num_int = Returned(CountValue(num_txt))

\* the forms without a decimal point are parsed as C14 says
WholeCountsParsed ==
    (num_int # NotRun(0) /\ (IsNumber(num_txt) \/ IsThousands(num_txt)))
        => num_int = Returned(CountValue(num_txt))

\* the dates of the calendar among the drawn texts
IsCalendarDate(date_str) ==
    /\ digitsValue(date_str.d) >= 1
    /\ \E m \in 1..12 :
          /\ MonthNames[m] = date_str.B
          /\ digitsValue(date_str.d) <= daysIn(m, digitsValue(date_str.Y))

\* C15: an item labelled Received, Accepted or Published with a date of the
\* calendar yields a field named by the label in capitals whose value is ten
\* characters YYYY-MM-DD: four digits of the year, two of the month, two
\* of the day; an item with another label yields no field.
C15_DateNormalized ==
    date_data.raises # "NotRun" =>
        /\ li.label \notin fields_desired => date_data = Returned(NoField)
        /\ (li.label \in fields_desired /\ IsCalendarDate(li.date_str)) =>
              LET iso == date_data.value.date
              IN  /\ date_data.raises = ""
                  /\ date_data.value.key = upper(li.label)
                  /\ Len(iso) = 10
                  /\ iso[5] = "-"
                  /\ iso[8] = "-"
                  /\ \A k \in { 1, 2, 3, 4, 6, 7, 9, 10 } : IsDigit(iso[k])
                  /\ SubSeq(iso, 1, 4) = li.date_str.Y
                  /\ digitsValue(SubSeq(iso, 6, 7)) \in 1..12
                  /\ MonthNames[digitsValue(SubSeq(iso, 6, 7))] = li.date_str.B
                  /\ digitsValue(SubSeq(iso, 9, 10)) = digitsValue(li.date_str.d)

\* C15, witness: "Published: 14 March 2023" has become PUBLISHED 2023-03-14
C15_Witness ==
    /\ li.label = "Published"
    /\ li.date_str = [ d |-> <<"1", "4">>, B |-> "March", Y |-> <<"2", "0", "2", "3">> ]
    /\ date_data = Returned([ key  |-> "PUBLISHED",
                              date |-> <<"2", "0", "2", "3", "-", "0", "3", "-", "1", "4">> ])

\* C16: an ORCID-less entry whose derived first and last name were resolved
\* before, in this article or an earlier one, resolves to a row that is
\* there and adds no row to AUTHORS; an entry seen for the first time
\* without a match adds one row.
C16_NameResolvesToExisting ==
    [][ ( /\ pc = "resolve"
          /\ pc' = "auth"
          /\ getSingleAuthorDict(item.auth).FIRSTNAME # <<>>
          /\ item.ORCID = None )
        => IF derivedName(item) \in seenNames
           THEN /\ conn'.AUTHORS = conn.AUTHORS
                /\ \E k \in 1..Len(conn.AUTHORS) :
                      auth_id_seen' = auth_id_seen \cup { conn.AUTHORS[k].ID }
           ELSE selectAuthors(conn.AUTHORS, authSingleDict(item)) = {}
                    => Len(conn'.AUTHORS) = Len(conn.AUTHORS) + 1 ]_vars

\* C16 for the names that fit their columns
FittingNameResolvesToExisting ==
    [][ ( /\ pc = "resolve"
          /\ pc' = "auth"
          /\ getSingleAuthorDict(item.auth).FIRSTNAME # <<>>
          /\ item.ORCID = None
          /\ authorRow(authSingleDict(item), 0).FIRSTNAME = derivedName(item).FIRSTNAME
          /\ authorRow(authSingleDict(item), 0).LASTNAME = derivedName(item).LASTNAME
          /\ derivedName(item) \in seenNames )
        => conn'.AUTHORS = conn.AUTHORS ]_vars

\* C17: every word handed to AddOrIncrementWord is a non-empty string of the
\* characters a-z and 0-9.
C17_WordsAreTokens ==
    \A e \in callprocLog :
        /\ e.word # <<>>
        /\ \A k \in 1..Len(e.word) : e.word[k] \in LowerChars \cup DigitChars

\* what C17 says of the characters alone holds: no capital, no punctuation
WordsAreLowerAlnum ==
    \A e \in callprocLog :
        \A k \in 1..Len(e.word) : e.word[k] \in LowerChars \cup DigitChars

\* C18: when the word count fails after the commit of the article's
\* transaction, the rows of the article stay committed and no word count
\* is committed, then and for the rest of the run.
C18_WordFailureKeepsArticle ==
    [][ /\ (pc = "words" /\ lastCard' = "words_failed") =>
              /\ db' = db
              /\ \E k \in 1..Len(db'.ARTICLES) : db'.ARTICLES[k].ID = article_id_last
              /\ TITLEWORDS' = TITLEWORDS
        /\ lastCard = "words_failed" => (db' = db /\ TITLEWORDS' = TITLEWORDS) ]_vars

\* C18, witness: the run ended after a failure of the word count in which
\* a call had succeeded: the article with an author and its link are
\* stored, the counts of the connector's session are not.
C18_Witness ==
    /\ lastCard = "words_failed"
    /\ pc = "done"
    /\ Len(db.ARTICLES) = 1
    /\ Len(db.AUTHORS) = 1
    /\ Len(db.ARTICLES_AUTHORS) = 1
    /\ connector # TITLEWORDS
    /\ TITLEWORDS = NoWords

\* C19: an entry without first name runs no lookup and writes nothing: the
\* tables of the transaction and the resolved IDs stay as they are, and the
\* loop goes on with the entry at the next index.
C19_NamelessSkipped ==
    [][ (pc = "resolve" /\ getSingleAuthorDict(item.auth).FIRSTNAME = <<>>)
        => ( /\ conn' = conn
             /\ db' = db
             /\ auth_id_seen' = auth_id_seen
             /\ auth_i' = auth_i + 1
             /\ lenAuthors' = lenAuthors
             /\ pc' = "auth"
             /\ keepSeeking' = keepSeeking ) ]_vars

\* C19, witness: the first entry of the list was passed over (nothing is
\* resolved yet) and the second, which has a first name, is being resolved.
C19_Witness ==
    /\ pc = "resolve"
    /\ auth_i = 1
    /\ auth_id_seen = {}
    /\ conn.AUTHORS = <<>>
    /\ getSingleAuthorDict(item.auth).FIRSTNAME # <<>>
    /\ item.ORCID \notin { None, NoIndex }

\* Names and ORCIDs are read at the same index: the entry being resolved has
\* no ORCID entry exactly when the ORCID list ends before its index, the row
\* stored for it holds its ORCID (cut to the column), and the row found for
\* an entry with ORCID holds that ORCID.
OrcidAtSameIndex ==
    /\ pc = "resolve" => (item.ORCID = NoIndex <=> auth_i >= lenOrcids)
    /\ (pc = "resolve" /\ pc' = "auth" /\ Len(conn'.AUTHORS) > Len(conn.AUTHORS)) =>
          conn'.AUTHORS[Len(conn'.AUTHORS)].ORCID = myInsertValue(item.ORCID, schema["ORCID"])
    /\ ( /\ pc = "resolve"
         /\ pc' = "auth"
         /\ getSingleAuthorDict(item.auth).FIRSTNAME # <<>>
         /\ item.ORCID # None
         /\ conn'.AUTHORS = conn.AUTHORS ) =>
          \E k \in 1..Len(conn.AUTHORS) :
              /\ conn.AUTHORS[k].ORCID = item.ORCID
              /\ auth_id_seen' = auth_id_seen \cup { conn.AUTHORS[k].ID }

\* C20 as stated: names and ORCIDs are read at the same index, and an
\* article whose ORCID list is shorter than its author list is never
\* committed: its transaction is rolled back and the crawl ends.
C20_ShortOrcidListAborts ==
    [][ /\ OrcidAtSameIndex
        /\ (InTx /\ lenOrcids < lenAuthors) =>
              (InTx' \/ (pc' = "while" /\ ~keepSeeking' /\ db' = db /\ conn' = db)) ]_vars

\* C20, amended: names and ORCIDs are read at the same index, and an entry
\* with a first name at an index the ORCID list does not have rolls the
\* transaction back and ends the crawl (entries without first name do not
\* read the ORCID list).
C20_MissingOrcidEntryAborts ==
    [][ /\ OrcidAtSameIndex
        /\ ( /\ pc = "resolve"
             /\ getSingleAuthorDict(item.auth).FIRSTNAME # <<>>
             /\ auth_i >= lenOrcids ) =>
              (pc' = "while" /\ ~keepSeeking' /\ db' = db /\ conn' = db) ]_vars

\* C20, witness: line 204 raised in the transaction of the first article of
\* the run; nothing is stored and the loop is about to be left.
C20_Witness ==
    /\ lastCard = "orcid_index"
    /\ pc = "while"
    /\ ~keepSeeking
    /\ db = EmptyTables
    /\ conn = EmptyTables

\* C21: every committed link row names the ID of a committed ARTICLES row
\* and the ID of a committed AUTHORS row.
C21_LinksReferenceRows ==
    \A k \in 1..Len(db.ARTICLES_AUTHORS) :
        /\ \E a \in 1..Len(db.ARTICLES) :
              db.ARTICLES[a].ID = db.ARTICLES_AUTHORS[k].ARTICLE_ID
        /\ \E b \in 1..Len(db.AUTHORS) :
              db.AUTHORS[b].ID = db.ARTICLES_AUTHORS[k].AUTHOR_ID

\* C21, witness: a second article's transaction was rolled back after the
\* first article was committed with two authors; the links stored are the
\* two of the first article.
C21_Witness ==
    /\ lastCard = "insert_failed"
    /\ pc = "while"
    /\ Len(db.ARTICLES) = 1
    /\ Len(db.AUTHORS) = 2
    /\ Len(db.ARTICLES_AUTHORS) = 2

\* C22: a run whose while loop has ended closes the connection and prints
\* the report of line 256; it never dies at line 254.
C22_ReportReached ==
    pc # "crashed"

\* C22 for the runs in which a card reached line 163 and bound conn
BoundConnReportReached ==
    [][ (pc = "close" /\ connBound) => pc' = "done" ]_vars

====
